---------------------------- MODULE Spec2Model ----------------------------
(***************************************************************************)
(* A model of tangled.decorators.cached_property: the data descriptor     *)
(* that caches a computed value in the instance's __dict__, tracks         *)
(* declared dependencies in a per-class dependency map and resets the      *)
(* dependents of a property that is set or deleted.                        *)
(*                                                                         *)
(* Threads run __get__, __set__ and __delete__ on instances of one class   *)
(* T.  Every access to shared state (an instance's __dict__, a            *)
(* descriptor's lock, the class's dependency map) is one step; a thread's  *)
(* position is its call stack, as __get__ calls fget, fget reads another   *)
(* cached property, and _reset_dependents calls delattr.                   *)
(*                                                                         *)
(* A second part models tangled.decorators.per_instance_lru_cache: the     *)
(* decorator keeps one functools.lru_cache per instance of the class C,    *)
(* under id(instance), and answers cache_info and cache_clear from it.     *)
(***************************************************************************)
EXTENDS Naturals, Sequences, FiniteSets, TLC

VARIABLES
    dependencies,   \* descriptor field: name -> declared dependency names
    lock,           \* descriptor field: name -> the thread holding self.lock
    attrs,          \* instance -> its __dict__
    clsattr,        \* the class attribute holding the dependency map, if set
    mapobj,         \* the dependency map objects, by creating thread
    stack,          \* thread -> its call stack of descriptor method frames
    op,             \* thread -> the attribute access it is performing
    hist,           \* instance, name -> what has happened to the property so far
    cfg,            \* the program run: its threads, instances, properties and values
    used,           \* thread -> attribute accesses started
    maxsize,        \* per_instance_lru_cache: {} for None, {n} for the integer n
    ident,          \* instance of C -> its id(), once created
    live,           \* the instances of C the program holds a reference to
    wrappers,       \* instance_wrappers: id -> the lru_cache made for it
    seen,           \* instance of C -> what it was called with since its last clear
    last,           \* the latest call, cache_info or cache_clear and its outcome
    wlock,          \* the decorator's lock: the thread holding it
    frames,         \* thread -> its stack of calls of the decorated method
    ret,            \* thread -> the calls it has completed, and the latest
    made,           \* id -> how many times an lru_cache was made for it
    registry,       \* _ACTION_REGISTRY: tag -> fully qualified name -> actions
    reglog,         \* the calls of register_action so far, in order
    lastfire        \* the latest call of fire_actions and the actions it invoked

thrVars == <<wlock, frames, ret, made>>

actVars == <<registry, reglog, lastfire>>

\* What the descriptor's methods leave alone: the state of the LRU decorator
\* and the action registry.
lruVars == <<maxsize, ident, live, wrappers, seen, last, thrVars, actVars>>

\* What the LRU decorator leaves alone: the state of the descriptors and the
\* action registry.
cpVars == <<dependencies, lock, attrs, clsattr, mapobj, stack, op, hist,
            cfg, used, actVars>>

vars == <<dependencies, lock, attrs, clsattr, mapobj, stack, op, hist,
          cfg, used, lruVars>>

(***************************************************************************)
(* Bounds                                                                  *)
(***************************************************************************)
MaxOps == 2
CallsCap == 2

MaxCalls == 4
MaxRounds == 2
MaxDepth == 2
MaxRegs == 3
DelsCap == 2

Threads == {"t1", "t2", "t3"}
Instances == {"o1", "o2"}
Names == {"a", "b", "c"}

\* A regular attribute of the class, no cached_property.
Regular == {"r"}
SetValues == {"A", "B"}
NoOwner == ""

(***************************************************************************)
(* The class T of the docstring, with a third property c chained on b.     *)
(***************************************************************************)
\* The property whose value fget(name) reads through self, "" when none.
ReadBy(name) ==
    CASE name = "a" -> ""
      [] name = "b" -> "a"
      [] name = "c" -> "b"

\* The value fget(name) returns, got being the value it read.
Fget(name, got) ==
    CASE name = "a" -> "a"
      [] name = "b" -> got \o " + b"
      [] name = "c" -> got \o " + c"

\* cached_property.__init__: the dependencies each descriptor was declared with.
\* c names the property it reads, or every property its value derives from.
Chain == [a |-> {}, b |-> {"a"}, c |-> {"b"}]

ClassDefs == {Chain, [Chain EXCEPT !.c = {"a", "b"}]}

(***************************************************************************)
(* dict operations                                                         *)
(***************************************************************************)
EmptyDict == [k \in {} |-> ""]

DictSet(d, k, v) == [x \in DOMAIN d \cup {k} |-> IF x = k THEN v ELSE d[x]]

DictDel(d, k) == [x \in DOMAIN d \ {k} |-> d[x]]

\* dict.get(k): None, which is falsy, when k is missing.
DictGetTruthy(d, k) == k \in DOMAIN d /\ d[k] = TRUE

WasSetDirectlyName(name) ==
    "_T__" \o name \o "_cached_property_was_set_directly"

(***************************************************************************)
(* Frames and call stacks                                                  *)
(***************************************************************************)
Frame(fn, obj, name, args, pc) ==
    [fn |-> fn, obj |-> obj, name |-> name, args |-> args, pc |-> pc,
     ctx |-> "", m |-> "", n |-> 0, it |-> 0, val |-> ""]

Running(t) == stack[t] # <<>>

Top(t) == stack[t][Len(stack[t])]

At(t, fn, pc) == Running(t) /\ Top(t).fn = fn /\ Top(t).pc = pc

SetTop(t, f) == [stack EXCEPT ![t] = [@ EXCEPT ![Len(@)] = f]]

Push(t, parent, child) ==
    [stack EXCEPT ![t] = Append([@ EXCEPT ![Len(@)] = parent], child)]

\* The top frame returns value r to its caller: fget receives it, delattr drops it.
PopStack(t, r) ==
    LET s == stack[t]
        k == Len(s)
    IN  IF k = 1 THEN <<>>
        ELSE IF s[k].fn = "get"
             THEN [SubSeq(s, 1, k - 1) EXCEPT ![k - 1].val = r]
             ELSE SubSeq(s, 1, k - 1)

IdleOp ==
    [kind |-> "none", obj |-> "", name |-> "", arg |-> "", status |-> "idle",
     result |-> "", exc |-> "", raised |-> "", computed |-> {},
     pre |-> EmptyDict, alone |-> TRUE, clean |-> TRUE,
     dels |-> [x \in Names |-> 0]]

\* Nothing has happened to a property of a new instance: fget results stored
\* since its slot was last emptied, the value of its latest assignment while no
\* assignment or del statement has followed, and the latest of: an assignment or
\* a delete (by statement or as a dependent), a value computed.
NoHist == [calls |-> 0, lastset |-> {}, lastev |-> "none"]

\* The access of thread t ends when its outermost frame returns.
Finish(t, r) ==
    IF Len(stack[t]) = 1
    THEN [op EXCEPT ![t].status = "done", ![t].result = r]
    ELSE op

\* Mutant: the locks are taken without a with-block, and stay held on an exception.
RaiseKeepsLocks(t, exc, by) ==
    /\ stack' = [stack EXCEPT ![t] = <<>>]
    /\ lock' = lock
    /\ op' = [op EXCEPT ![t].status = "done", ![t].exc = exc, ![t].raised = by]

\* An exception leaves every frame of the thread; each with-block releases its lock.
Raise(t, exc, by) ==
    /\ stack' = [stack EXCEPT ![t] = <<>>]
    /\ lock' = [x \in DOMAIN lock |-> IF lock[x] = t THEN NoOwner ELSE lock[x]]
    /\ op' = [op EXCEPT ![t].status = "done", ![t].exc = exc, ![t].raised = by]


(***************************************************************************)
(* per_instance_lru_cache: the class C of the docstring, its instances and *)
(* the state of the decorator before any call.                             *)
(***************************************************************************)
LruObjs == {"c", "d"}

\* The values id() can take: the places an instance of C can occupy in memory.
Ids == {"id1", "id2"}

NoId == ""

\* The argument tuples some_method is called with.
ArgTuples == {<<1, 2, 3>>, <<4, 5, 6>>, <<7, 8, 9>>}

\* some_method(self, x, y, z)
Method(args) == args[1] + args[2] + args[3]

\* The maxsize the method is decorated with: None, or an integer.
MaxSizes == {{}, {0}, {1}, {2}}

\* A call counted and a recency list for a new or cleared instance: the number
\* of calls that returned, and the distinct argument tuples used, the most
\* recently used last.
NoSeen == [calls |-> 0, recent |-> <<>>]

\* functools._CacheInfo
CacheInfoOf(hits, misses, ms, currsize) ==
    [hits |-> hits, misses |-> misses, maxsize |-> ms, currsize |-> currsize]

\* No call of the decorated method has returned to the thread.
NoRet == [n |-> 0, hit |-> FALSE, result |-> 0, nested |-> {}]

NoLast ==
    [kind |-> "none", obj |-> "", args |-> <<>>, hit |-> FALSE, result |-> 0,
     info |-> CacheInfoOf(0, 0, {}, 0)]

\* decorator(method): no instance wrapper yet, no instance of C created.
LruStart(ms) ==
    /\ maxsize = ms
    /\ ident = [o \in LruObjs |-> NoId]
    /\ live = {}
    /\ wrappers = EmptyDict
    /\ seen = [o \in LruObjs |-> NoSeen]
    /\ last = NoLast
    /\ wlock = NoOwner
    /\ frames = [t \in Threads |-> <<>>]
    /\ ret = [t \in Threads |-> NoRet]
    /\ made = [i \in Ids |-> 0]

(***************************************************************************)
(* register_action and fire_actions: a package p with the modules p.m      *)
(* (a function f, a class K with a method h) and p.mo (a function g).      *)
(***************************************************************************)
\* The characters of the names used in the package.
Spell ==
    [p |-> <<"p">>, m |-> <<"m">>, mo |-> <<"m", "o">>, f |-> <<"f">>,
     g |-> <<"g">>, K |-> <<"K">>, h |-> <<"h">>]

\* The objects a decorator can wrap, each by its path: package, module,
\* qualified name.
WrappedObjs == {<<"p", "m", "f">>, <<"p", "mo", "g">>, <<"p", "m", "K", "h">>}

\* What fire_actions can be told to look in.
Wheres == {<<"p">>, <<"p", "m">>, <<"p", "mo">>, <<"p", "m", "K">>}

Tags == {"x", "y"}

\* The tags argument of fire_actions: () for every tag.
TagTuples == {<<>>, <<"x">>, <<"y">>, <<"x", "y">>, <<"y", "x">>}

\* fully_qualified_name(obj): the names of the path joined by dots, as the
\* string of its characters.
RECURSIVE fully_qualified_name(_)
fully_qualified_name(path) ==
    IF Len(path) = 1 THEN Spell[path[1]]
    ELSE fully_qualified_name(SubSeq(path, 1, Len(path) - 1))
            \o <<".">> \o Spell[path[Len(path)]]

\* str.startswith
StartsWith(str, prefix) ==
    Len(prefix) <= Len(str) /\ SubSeq(str, 1, Len(prefix)) = prefix

\* A dict keeps its keys in the order they were first set: the items
\* [key, val] in that order.
Keys(d) == [i \in 1..Len(d) |-> d[i].key]

HasKey(d, k) == \E i \in 1..Len(d) : d[i].key = k

Item(d, k) == d[CHOOSE i \in 1..Len(d) : d[i].key = k].val

\* d.setdefault(k, v), and d[k] = v for a key that is present
SetDefault(d, k, v) ==
    IF HasKey(d, k) THEN d ELSE Append(d, [key |-> k, val |-> v])

SetItem(d, k, v) ==
    [i \in 1..Len(d) |-> IF d[i].key = k THEN [key |-> k, val |-> v] ELSE d[i]]

\* No call of fire_actions yet; regs is the number of actions registered
\* when the call was made.
NoFire ==
    [where |-> <<>>, tags |-> <<>>, acts |-> <<>>, exc |-> "", n |-> 0, regs |-> 0]

\* _ACTION_REGISTRY = {}
ActStart ==
    /\ registry = <<>>
    /\ reglog = <<>>
    /\ lastfire = NoFire

\* register_action(wrapped, action, tag): the action is the n-th registered.
RegisterAction(wrapped, tag) ==
    /\ Len(reglog) < MaxRegs
    /\ LET action == Len(reglog) + 1
           r1 == SetDefault(registry, tag, <<>>)
           fq_name == fully_qualified_name(wrapped)
           t1 == SetDefault(Item(r1, tag), fq_name, <<>>)
           actions == Append(Item(t1, fq_name), action)
       IN  registry' = SetItem(r1, tag, SetItem(t1, fq_name, actions))
    /\ reglog' = Append(reglog, [wrapped |-> wrapped, tag |-> tag])
    /\ UNCHANGED <<dependencies, lock, attrs, clsattr, mapobj, stack, op, hist,
                   cfg, used, maxsize, ident, live, wrappers, seen, last,
                   thrVars, lastfire>>

\* fq_name.startswith(where_fq_name)
Matches(fq_name, where_fq_name) == StartsWith(fq_name, where_fq_name)

\* The actions of one tag's dict that are fired, in the order of the loops.
RECURSIVE FireTag(_, _)
FireTag(tag_actions, where_fq_name) ==
    IF tag_actions = <<>> THEN <<>>
    ELSE (IF Matches(Head(tag_actions).key, where_fq_name)
          THEN Head(tag_actions).val ELSE <<>>)
            \o FireTag(Tail(tag_actions), where_fq_name)

\* `for tag in tags: tag_actions = _registry[tag] ...`: the actions invoked,
\* and the KeyError of a tag the registry does not have.
RECURSIVE FireTags(_, _)
FireTags(tags, where_fq_name) ==
    IF tags = <<>> THEN [acts |-> <<>>, exc |-> ""]
    ELSE IF ~HasKey(registry, Head(tags)) THEN [acts |-> <<>>, exc |-> "KeyError"]
    ELSE LET rest == FireTags(Tail(tags), where_fq_name)
         IN  [acts |-> FireTag(Item(registry, Head(tags)), where_fq_name) \o rest.acts,
              exc |-> rest.exc]

\* fire_actions(where, tags), every module of the package imported already.
FireActions(where, tags) ==
    /\ lastfire.n < MaxRegs
    /\ LET where_fq_name == fully_qualified_name(where)
           ts == IF tags = <<>> THEN Keys(registry) ELSE tags
           out == FireTags(ts, where_fq_name)
       IN  lastfire' = [where |-> where, tags |-> tags, acts |-> out.acts,
                        exc |-> out.exc, n |-> lastfire.n + 1,
                        regs |-> Len(reglog)]
    /\ UNCHANGED <<dependencies, lock, attrs, clsattr, mapobj, stack, op, hist,
                   cfg, used, maxsize, ident, live, wrappers, seen, last,
                   thrVars, registry, reglog>>

(***************************************************************************)
(* The initial state: descriptors constructed, no instance touched yet.    *)
(***************************************************************************)
InitState(defs, c) ==
    /\ dependencies \in defs
    /\ lock = [x \in Names \cup Regular |-> NoOwner]
    /\ attrs = [o \in Instances |-> EmptyDict]
    /\ clsattr = {}
    /\ mapobj = [t \in Threads |-> <<>>]
    /\ stack = [t \in Threads |-> <<>>]
    /\ op = [t \in Threads |-> IdleOp]
    /\ hist = [o \in Instances |-> [x \in Names |-> NoHist]]
    /\ cfg = c
    /\ used = [t \in Threads |-> 0]
    /\ ActStart

\* A run in which every thread may access every instance.
InitWith(defs, ts, os, ns, vs, b) ==
    /\ InitState(defs, [threads |-> ts, instances |-> os, names |-> ns,
                        values |-> vs, bounded |-> b, own |-> FALSE])
    /\ LruStart({})

\* The instance a thread keeps to in a run where each thread has its own.
OwnInstance(t) == IF t = "t1" THEN "o1" ELSE "o2"

(***************************************************************************)
(* A thread starts an attribute access: obj.x, obj.x = v, del obj.x.       *)
(***************************************************************************)
CanStart(t, o, x) ==
    /\ t \in cfg.threads
    /\ o \in cfg.instances
    /\ cfg.own => o = OwnInstance(t)
    /\ x \in cfg.names
    /\ ~Running(t)
    /\ cfg.bounded => used[t] < MaxOps

Begin(t, kind, o, x, arg) ==
    /\ op' = [u \in Threads |->
                IF u = t
                THEN [kind |-> kind, obj |-> o, name |-> x, arg |-> arg,
                      status |-> "running", result |-> "", exc |-> "",
                      raised |-> "", computed |-> {}, pre |-> attrs[o],
                      alone |-> \A w \in Threads \ {t} : ~Running(w),
                      clean |-> TRUE, dels |-> [y \in Names |-> 0]]
                ELSE IF Running(u) THEN [op[u] EXCEPT !.alone = FALSE]
                ELSE op[u]]
    /\ used' = IF cfg.bounded THEN [used EXCEPT ![t] = @ + 1] ELSE used

StartGet(t, o, x) ==
    /\ CanStart(t, o, x)
    /\ stack' = [stack EXCEPT ![t] = <<Frame("get", o, x, <<>>, "check")>>]
    /\ Begin(t, "get", o, x, "")
    /\ UNCHANGED <<dependencies, lock, attrs, clsattr, mapobj, hist,
                   cfg, lruVars>>

\* __set__: self._update(obj, value)
StartSet(t, o, x, v) ==
    /\ CanStart(t, o, x)
    /\ v \in cfg.values
    /\ stack' = [stack EXCEPT ![t] = <<Frame("upd", o, x, <<v>>, "lock")>>]
    /\ Begin(t, "set", o, x, v)
    /\ UNCHANGED <<dependencies, lock, attrs, clsattr, mapobj, hist,
                   cfg, lruVars>>

\* __delete__: self._update(obj)
StartDelete(t, o, x) ==
    /\ CanStart(t, o, x)
    /\ stack' = [stack EXCEPT ![t] = <<Frame("upd", o, x, <<>>, "lock")>>]
    /\ Begin(t, "delete", o, x, "")
    /\ UNCHANGED <<dependencies, lock, attrs, clsattr, mapobj, hist,
                   cfg, lruVars>>

(***************************************************************************)
(* __get__                                                                 *)
(***************************************************************************)
\* Mutant: the cached value is never looked up.
NotCachedAlways(d, name) == TRUE

\* `name not in attrs`
NotCached(d, name) == name \notin DOMAIN d

\* The unlocked check of __get__.
GetCheck(t) ==
    /\ At(t, "get", "check")
    /\ LET f == Top(t)
       IN  stack' = SetTop(t, [f EXCEPT !.pc =
                IF NotCached(attrs[f.obj], f.name) THEN "lock" ELSE "ret"])
    /\ UNCHANGED <<dependencies, lock, attrs, clsattr, mapobj, op, hist,
                   cfg, used, lruVars>>

\* Mutant: no second check after the lock is taken.
RecheckSkipped(d, name) == TRUE

\* The check repeated under the lock: a thread that waited finds the value set.
Recheck(d, name) == NotCached(d, name)

\* Mutant: one lock serves every descriptor of the class.
GetLockOne(t) ==
    /\ At(t, "get", "lock")
    /\ LET f == Top(t)
       IN  /\ \A x \in Names : lock[x] = NoOwner
           /\ IF Recheck(attrs[f.obj], f.name)
              THEN /\ lock' = [lock EXCEPT ![f.name] = t]
                   /\ stack' = SetTop(t,
                        IF dependencies[f.name] # {}
                        THEN [f EXCEPT !.pc = "has", !.ctx = "add"]
                        ELSE [f EXCEPT !.pc = "fget"])
              ELSE /\ lock' = lock
                   /\ stack' = SetTop(t, [f EXCEPT !.pc = "ret"])
    /\ UNCHANGED <<dependencies, attrs, clsattr, mapobj, op, hist,
                   cfg, used, lruVars>>

\* `with self.lock:` and the second check; a cached value leaves the block at once.
GetLock(t) ==
    /\ At(t, "get", "lock")
    /\ LET f == Top(t)
       IN  /\ lock[f.name] = NoOwner
           /\ IF Recheck(attrs[f.obj], f.name)
              THEN /\ lock' = [lock EXCEPT ![f.name] = t]
                   /\ stack' = SetTop(t,
                        IF dependencies[f.name] # {}
                        THEN [f EXCEPT !.pc = "has", !.ctx = "add"]
                        ELSE [f EXCEPT !.pc = "fget"])
              ELSE /\ lock' = lock
                   /\ stack' = SetTop(t, [f EXCEPT !.pc = "ret"])
    /\ UNCHANGED <<dependencies, attrs, clsattr, mapobj, op, hist,
                   cfg, used, lruVars>>

\* attrs[name] = self.fget(obj): the call.  fget reads the property it is
\* computed from through a nested __get__.
GetFget(t) ==
    /\ At(t, "get", "fget")
    /\ LET f == Top(t)
           g == [f EXCEPT !.pc = "store", !.ctx = "", !.m = ""]
       IN  stack' = IF ReadBy(f.name) = ""
                    THEN SetTop(t, g)
                    ELSE Push(t, g, Frame("get", f.obj, ReadBy(f.name), <<>>, "check"))
    /\ op' = [op EXCEPT ![t].computed = @ \cup {Top(t).name}]
    /\ UNCHANGED <<dependencies, lock, attrs, clsattr, mapobj, hist,
                   cfg, used, lruVars>>

\* fget raises instead of returning.
FgetRaise(t) ==
    /\ At(t, "get", "store")
    /\ Raise(t, "ComputeError", Top(t).name)
    /\ UNCHANGED <<dependencies, attrs, clsattr, mapobj, hist,
                   cfg, used, lruVars>>

\* Mutant: the value is kept with the descriptor, for every instance of the class.
GetStoreShared(t) ==
    /\ At(t, "get", "store")
    /\ LET f == Top(t)
       IN  /\ attrs' = [o \in Instances |->
                            DictSet(attrs[o], f.name, Fget(f.name, f.val))]
           /\ hist' = [hist EXCEPT ![f.obj][f.name] =
                            [@ EXCEPT !.calls = IF @ < CallsCap THEN @ + 1 ELSE @,
                                      !.lastev = "computed"]]
           /\ stack' = SetTop(t, [f EXCEPT !.pc = "flag", !.val = ""])
    /\ UNCHANGED <<dependencies, lock, clsattr, mapobj, op,
                   cfg, used, lruVars>>

\* attrs[name] = self.fget(obj): the assignment.
GetStore(t) ==
    /\ At(t, "get", "store")
    /\ LET f == Top(t)
       IN  /\ attrs' = [attrs EXCEPT ![f.obj] =
                            DictSet(@, f.name, Fget(f.name, f.val))]
           /\ hist' = [hist EXCEPT ![f.obj][f.name] =
                            [@ EXCEPT !.calls = IF @ < CallsCap THEN @ + 1 ELSE @,
                                      !.lastev = "computed"]]
           /\ stack' = SetTop(t, [f EXCEPT !.pc = "flag", !.val = ""])
    /\ UNCHANGED <<dependencies, lock, clsattr, mapobj, op,
                   cfg, used, lruVars>>

\* Mutant: a computed value is marked as set directly.
GetFlagTrue(t) ==
    /\ At(t, "get", "flag")
    /\ LET f == Top(t)
       IN  /\ attrs' = [attrs EXCEPT ![f.obj] =
                            DictSet(@, WasSetDirectlyName(f.name), TRUE)]
           /\ lock' = [lock EXCEPT ![f.name] = NoOwner]
           /\ stack' = SetTop(t, [f EXCEPT !.pc = "ret"])
    /\ UNCHANGED <<dependencies, clsattr, mapobj, op, hist,
                   cfg, used, lruVars>>

\* attrs[was_set_directly_name] = False, and the end of the with-block.
GetFlag(t) ==
    /\ At(t, "get", "flag")
    /\ LET f == Top(t)
       IN  /\ attrs' = [attrs EXCEPT ![f.obj] =
                            DictSet(@, WasSetDirectlyName(f.name), FALSE)]
           /\ lock' = [lock EXCEPT ![f.name] = NoOwner]
           /\ stack' = SetTop(t, [f EXCEPT !.pc = "ret"])
    /\ UNCHANGED <<dependencies, clsattr, mapobj, op, hist,
                   cfg, used, lruVars>>

\* return attrs[name]: a KeyError when the name is no longer in the dict.
GetReturn(t) ==
    /\ At(t, "get", "ret")
    /\ LET f == Top(t)
       IN  IF f.name \in DOMAIN attrs[f.obj]
           THEN /\ stack' = [stack EXCEPT ![t] = PopStack(t, attrs[f.obj][f.name])]
                /\ op' = Finish(t, attrs[f.obj][f.name])
                /\ lock' = lock
           ELSE Raise(t, "KeyError", f.name)
    /\ UNCHANGED <<dependencies, attrs, clsattr, mapobj, hist,
                   cfg, used, lruVars>>

(***************************************************************************)
(* _add_to_dependency_map and _get_dependency_map                          *)
(***************************************************************************)
\* The frame once _get_dependency_map has returned map object m: the caller
\* stores its entry, or starts iterating over dependency_map.items().
GotMap(f, m) ==
    IF f.ctx = "add"
    THEN [f EXCEPT !.m = m, !.pc = "put"]
    ELSE [f EXCEPT !.m = m, !.n = Len(mapobj[m]), !.it = 0, !.pc = "next"]

\* hasattr(obj_cls, dependency_map_name), and getattr when it has.
MapHas(t) ==
    /\ Running(t)
    /\ Top(t).pc = "has"
    /\ LET f == Top(t)
       IN  stack' = SetTop(t,
                IF clsattr = {} THEN [f EXCEPT !.pc = "setmap"]
                ELSE GotMap(f, CHOOSE m \in clsattr : TRUE))
    /\ UNCHANGED <<dependencies, lock, attrs, clsattr, mapobj, op, hist,
                   cfg, used, lruVars>>

\* setattr(obj_cls, dependency_map_name, {})
MapSet(t) ==
    /\ Running(t)
    /\ Top(t).pc = "setmap"
    /\ clsattr' = {t}
    /\ mapobj' = [mapobj EXCEPT ![t] = <<>>]
    /\ stack' = SetTop(t, [Top(t) EXCEPT !.pc = "getmap"])
    /\ UNCHANGED <<dependencies, lock, attrs, op, hist,
                   cfg, used, lruVars>>

\* getattr(obj_cls, dependency_map_name)
MapGet(t) ==
    /\ Running(t)
    /\ Top(t).pc = "getmap"
    /\ stack' = SetTop(t, GotMap(Top(t), CHOOSE m \in clsattr : TRUE))
    /\ UNCHANGED <<dependencies, lock, attrs, clsattr, mapobj, op, hist,
                   cfg, used, lruVars>>

Range(s) == {s[i] : i \in 1..Len(s)}

\* dependency_map[name] = self.dependencies
MapPut(t) ==
    /\ Running(t)
    /\ Top(t).pc = "put"
    /\ LET f == Top(t)
       IN  /\ mapobj' = [mapobj EXCEPT ![f.m] =
                            IF f.name \in Range(@) THEN @ ELSE Append(@, f.name)]
           /\ stack' = SetTop(t, [f EXCEPT !.pc =
                            IF f.fn = "get" THEN "fget" ELSE "write"])
    /\ UNCHANGED <<dependencies, lock, attrs, clsattr, op, hist,
                   cfg, used, lruVars>>

(***************************************************************************)
(* _update                                                                 *)
(***************************************************************************)
\* `with self.lock:` and `if name not in attrs: self._add_to_dependency_map(...)`
UpdateLock(t) ==
    /\ At(t, "upd", "lock")
    /\ LET f == Top(t)
       IN  /\ lock[f.name] = NoOwner
           /\ lock' = [lock EXCEPT ![f.name] = t]
           /\ stack' = SetTop(t,
                IF NotCached(attrs[f.obj], f.name) /\ dependencies[f.name] # {}
                THEN [f EXCEPT !.pc = "has", !.ctx = "add"]
                ELSE [f EXCEPT !.pc = "write"])
           /\ hist' = [hist EXCEPT ![f.obj][f.name] =
                [@ EXCEPT !.lastev = IF f.args # <<>> THEN "set" ELSE "deleted",
                          !.lastset = IF Len(stack[t]) > 1 THEN @
                                      ELSE IF f.args # <<>> THEN {f.args[1]}
                                      ELSE {}]]
    /\ UNCHANGED <<dependencies, attrs, clsattr, mapobj, op,
                   cfg, used, lruVars>>

\* Mutant: an assignment marks the property set directly but stores no value.
WrittenNoStore(d, name, args) ==
    IF args # <<>> THEN d ELSE DictDel(d, name)

\* Mutant: a delete leaves the cached value in place.
WrittenSetOnly(d, name, args) ==
    IF args # <<>> THEN DictSet(d, name, args[1]) ELSE d

\* The __dict__ after `attrs[name] = args[0]`, or after `del attrs[name]`
\* when the name is in it.
Written(d, name, args) ==
    IF args # <<>> THEN DictSet(d, name, args[1]) ELSE DictDel(d, name)

UpdateWrite(t) ==
    /\ At(t, "upd", "write")
    /\ LET f == Top(t)
       IN  /\ attrs' = [attrs EXCEPT ![f.obj] = Written(@, f.name, f.args)]
           /\ hist' = IF f.args = <<>>
                      THEN [hist EXCEPT ![f.obj][f.name].calls = 0]
                      ELSE hist
           /\ op' = [u \in Threads |->
                        LET o1 == IF /\ u = t
                                     /\ f.args = <<>>
                                     /\ f.name \in DOMAIN attrs[f.obj]
                                  THEN [op[u] EXCEPT !.dels[f.name] =
                                            IF @ < DelsCap THEN @ + 1 ELSE @]
                                  ELSE op[u]
                        IN  IF /\ op[u].status = "running"
                               /\ op[u].obj = f.obj
                               /\ op[u].name = f.name
                               /\ Len(stack[t]) > 1 \/ u # t
                            THEN [o1 EXCEPT !.clean = FALSE]
                            ELSE o1]
           /\ stack' = SetTop(t, [f EXCEPT !.pc = "flag", !.ctx = "", !.m = ""])
    /\ UNCHANGED <<dependencies, lock, clsattr, mapobj,
                   cfg, used, lruVars>>

\* Mutant: the flag is raised by a delete too.
WasSetDirectlyAlways(args) == TRUE

\* was_set_directly: True after an assignment, False after a delete.
WasSetDirectly(args) == args # <<>>

\* Mutant: the flag is kept once for all the instances of the class.
UpdateFlagShared(t) ==
    /\ At(t, "upd", "flag")
    /\ LET f == Top(t)
       IN  /\ attrs' = [o \in Instances |->
                            DictSet(attrs[o], WasSetDirectlyName(f.name),
                                    WasSetDirectly(f.args))]
           /\ stack' = SetTop(t, [f EXCEPT !.pc = "has", !.ctx = "reset"])
    /\ UNCHANGED <<dependencies, lock, clsattr, mapobj, op, hist,
                   cfg, used, lruVars>>

\* attrs[was_set_directly_name] = was_set_directly, then self._reset_dependents(obj)
UpdateFlag(t) ==
    /\ At(t, "upd", "flag")
    /\ LET f == Top(t)
       IN  /\ attrs' = [attrs EXCEPT ![f.obj] =
                            DictSet(@, WasSetDirectlyName(f.name), WasSetDirectly(f.args))]
           /\ stack' = SetTop(t, [f EXCEPT !.pc = "has", !.ctx = "reset"])
    /\ UNCHANGED <<dependencies, lock, clsattr, mapobj, op, hist,
                   cfg, used, lruVars>>

(***************************************************************************)
(* _reset_dependents                                                       *)
(***************************************************************************)
\* Mutant: the test is made the wrong way round.
IsDependencyReversed(name, dependent) == dependent \in dependencies[name]

\* Mutant: every registered property is taken for a dependent.
IsDependencyAny(name, dependent) == TRUE

\* `name in dependencies`, for the entry of dependent in the map
IsDependency(name, dependent) == name \in dependencies[dependent]

\* The next item of dependency_map.items(): a RuntimeError when the dict has
\* changed size, the end of _update (and of its with-block) when exhausted.
ResetNext(t) ==
    /\ At(t, "upd", "next")
    /\ LET f == Top(t)
           items == mapobj[f.m]
       IN  IF Len(items) # f.n
           THEN /\ Raise(t, "RuntimeError", f.name)
           ELSE IF f.it >= f.n
           THEN /\ stack' = [stack EXCEPT ![t] = PopStack(t, "")]
                /\ lock' = [lock EXCEPT ![f.name] = NoOwner]
                /\ op' = Finish(t, "")
           ELSE /\ stack' = SetTop(t,
                    IF IsDependency(f.name, items[f.it + 1])
                    THEN [f EXCEPT !.it = @ + 1, !.val = items[f.it + 1], !.pc = "inattrs"]
                    ELSE [f EXCEPT !.it = @ + 1])
                /\ lock' = lock
                /\ op' = op
    /\ UNCHANGED <<dependencies, attrs, clsattr, mapobj, hist,
                   cfg, used, lruVars>>

\* Mutant: `dependent in attrs` is taken to be true.
ResetInAttrsAlways(t) ==
    /\ At(t, "upd", "inattrs")
    /\ stack' = SetTop(t, [Top(t) EXCEPT !.pc = "wsd"])
    /\ UNCHANGED <<dependencies, lock, attrs, clsattr, mapobj, op, hist,
                   cfg, used, lruVars>>

\* `dependent in attrs`
ResetInAttrs(t) ==
    /\ At(t, "upd", "inattrs")
    /\ LET f == Top(t)
       IN  stack' = SetTop(t,
                IF f.val \in DOMAIN attrs[f.obj]
                THEN [f EXCEPT !.pc = "wsd"]
                ELSE [f EXCEPT !.pc = "next", !.val = ""])
    /\ UNCHANGED <<dependencies, lock, attrs, clsattr, mapobj, op, hist,
                   cfg, used, lruVars>>

\* Mutant: the flag is not consulted.
NotSetDirectlyIgnored(d, dependent) == TRUE

\* `not attrs.get(was_set_directly_name(obj, dependent))`
NotSetDirectly(d, dependent) == ~DictGetTruthy(d, WasSetDirectlyName(dependent))

\* Mutant: `del attrs[dependent]` in place of delattr, so the dependent's own
\* dependents are not reset.
ResetWasSetFlat(t) ==
    /\ At(t, "upd", "wsd")
    /\ LET f == Top(t)
       IN  /\ stack' = SetTop(t, [f EXCEPT !.pc = "next", !.val = ""])
           /\ attrs' = IF NotSetDirectly(attrs[f.obj], f.val)
                       THEN [attrs EXCEPT ![f.obj] = DictDel(@, f.val)]
                       ELSE attrs
    /\ UNCHANGED <<dependencies, lock, clsattr, mapobj, op, hist, cfg, used, lruVars>>

\* The last conjunct of `reset`, and `delattr(obj, dependent)` when it holds.
ResetWasSet(t) ==
    /\ At(t, "upd", "wsd")
    /\ LET f == Top(t)
           g == [f EXCEPT !.pc = "next", !.val = ""]
       IN  stack' = IF NotSetDirectly(attrs[f.obj], f.val)
                    THEN Push(t, g, Frame("upd", f.obj, f.val, <<>>, "lock"))
                    ELSE SetTop(t, g)
    /\ UNCHANGED <<dependencies, lock, attrs, clsattr, mapobj, op, hist,
                   cfg, used, lruVars>>

(***************************************************************************)
(* reset_dependents_of                                                     *)
(***************************************************************************)
\* cached_property.reset_dependents_of(obj, name) is called by the program.
StartResetOf(t, o, x) ==
    /\ t \in cfg.threads
    /\ o \in cfg.instances
    /\ x \in cfg.names \cup Regular
    /\ ~Running(t)
    /\ cfg.bounded => used[t] < MaxOps
    /\ stack' = [stack EXCEPT ![t] = <<Frame("upd", o, x, <<>>, "isprop")>>]
    /\ Begin(t, "reset", o, x, "")
    /\ UNCHANGED <<dependencies, lock, attrs, clsattr, mapobj, hist,
                   cfg, lruVars>>

\* Mutant: the name is never taken for that of a cached property.
IsCachedPropertyNever(name) == FALSE

\* isinstance(getattr(obj.__class__, name, None), cls)
IsCachedProperty(name) == name \in Names

\* `if isinstance(...): return`; otherwise the fake property of (class, name)
\* is looked up, and made under _lock when there is none yet.
ResetOfCheck(t) ==
    /\ At(t, "upd", "isprop")
    /\ IF IsCachedProperty(Top(t).name)
       THEN /\ stack' = [stack EXCEPT ![t] = PopStack(t, "")]
            /\ op' = Finish(t, "")
       ELSE /\ stack' = SetTop(t, [Top(t) EXCEPT !.pc = "rlock"])
            /\ op' = op
    /\ UNCHANGED <<dependencies, lock, attrs, clsattr, mapobj, hist,
                   cfg, used, lruVars>>

\* `with fake_prop.lock:` and the call of fake_prop._reset_dependents(obj)
ResetOfLock(t) ==
    /\ At(t, "upd", "rlock")
    /\ lock[Top(t).name] = NoOwner
    /\ lock' = [lock EXCEPT ![Top(t).name] = t]
    /\ stack' = SetTop(t, [Top(t) EXCEPT !.pc = "has", !.ctx = "reset"])
    /\ UNCHANGED <<dependencies, attrs, clsattr, mapobj, op, hist,
                   cfg, used, lruVars>>

(***************************************************************************)
(* per_instance_lru_cache: wrapper, cache_info and cache_clear, called     *)
(* one after the other                                                     *)
(***************************************************************************)
\* An entry of a cache has the instance in its key: lru_cache makes the key of
\* all the arguments of instance_wrapper(self, *args), and so refers to self.
Retained(o) ==
    \E k \in DOMAIN wrappers :
        \E i \in 1..Len(wrappers[k].cache) : wrappers[k].cache[i].self = o

\* The instance occupies memory: the program or a cache entry refers to it.
InMemory(o) == o \in live \/ Retained(o)

\* c = C(): the new object takes a place no object in memory occupies.
NewInstance(o) ==
    /\ ident[o] = NoId
    /\ \E i \in Ids :
        /\ \A q \in LruObjs : InMemory(q) => ident[q] # i
        /\ ident' = [ident EXCEPT ![o] = i]
    /\ live' = live \cup {o}
    /\ last' = [NoLast EXCEPT !.kind = "new", !.obj = o]
    /\ UNCHANGED <<maxsize, wrappers, seen, cpVars, thrVars>>

\* The program drops its reference to the instance.
DropInstance(o) ==
    /\ o \in live
    /\ live' = live \ {o}
    /\ last' = [NoLast EXCEPT !.kind = "del", !.obj = o]
    /\ UNCHANGED <<maxsize, ident, wrappers, seen, cpVars, thrVars>>

\* Mutant: one key for every instance of the class, as lru_cache on the method.
WrapperKeyOfClass(o) == "id1"

\* key = id(self)
WrapperKey(o) == ident[o]

\* lru_cache(maxsize, typed)(method): a cache with nothing in it.
NewCache == [hits |-> 0, misses |-> 0, cache |-> <<>>]

\* get_instance_wrapper(key), or the wrapper made when it returns None.
WrapperOf(o) ==
    IF WrapperKey(o) \in DOMAIN wrappers
    THEN wrappers[WrapperKey(o)]
    ELSE NewCache

\* The place of the key (self, args) in a cache, 0 when it has no such entry.
Find(cache, o, args) ==
    IF \E i \in 1..Len(cache) : cache[i].self = o /\ cache[i].args = args
    THEN CHOOSE i \in 1..Len(cache) : cache[i].self = o /\ cache[i].args = args
    ELSE 0

Remove(seq, i) == SubSeq(seq, 1, i - 1) \o SubSeq(seq, i + 1, Len(seq))

\* The integer maxsize.
MaxsizeInt == CHOOSE n \in maxsize : TRUE

\* Mutant: a hit leaves the entry where it is, so the oldest stored is evicted.
CalledNoMove(w, o, args) ==
    LET i == Find(w.cache, o, args)
        e == [self |-> o, args |-> args, val |-> Method(args)]
    IN  IF i # 0
        THEN [w EXCEPT !.hits = @ + 1]
        ELSE [w EXCEPT !.misses = @ + 1,
                       !.cache = IF maxsize = {0} THEN @
                                 ELSE IF maxsize # {} /\ Len(@) >= MaxsizeInt
                                 THEN Append(Tail(@), e)
                                 ELSE Append(@, e)]

\* instance_wrapper(self, *args): the cache made by functools.lru_cache,
\* its entries kept from the least to the most recently used.
Called(w, o, args) ==
    LET i == Find(w.cache, o, args)
        e == [self |-> o, args |-> args, val |-> Method(args)]
    IN  IF i # 0
        THEN [w EXCEPT !.hits = @ + 1,
                       !.cache = IF maxsize = {} THEN @
                                 ELSE Append(Remove(@, i), w.cache[i])]
        ELSE [w EXCEPT !.misses = @ + 1,
                       !.cache = IF maxsize = {0} THEN @
                                 ELSE IF maxsize # {} /\ Len(@) >= MaxsizeInt
                                 THEN Append(Tail(@), e)
                                 ELSE Append(@, e)]

\* wrapper(self, *args): the instance's wrapper is looked up or made, then called.
LruCall(o, args) ==
    /\ o \in live
    /\ seen[o].calls < MaxCalls
    /\ LET w == WrapperOf(o)
           i == Find(w.cache, o, args)
           Other(x) == x # args
       IN  /\ wrappers' = DictSet(wrappers, WrapperKey(o), Called(w, o, args))
           /\ last' = [NoLast EXCEPT !.kind = "call", !.obj = o, !.args = args,
                            !.hit = (i # 0),
                            !.result = IF i # 0 THEN w.cache[i].val ELSE Method(args)]
           /\ seen' = [seen EXCEPT ![o] =
                            [calls |-> @.calls + 1,
                             recent |-> Append(SelectSeq(@.recent, Other), args)]]
    /\ UNCHANGED <<maxsize, ident, live, cpVars, thrVars>>

\* cache_info(instance): the wrapper's cache_info(), or zeros when there is none.
InfoOf(o) ==
    IF WrapperKey(o) \in DOMAIN wrappers
    THEN CacheInfoOf(WrapperOf(o).hits, WrapperOf(o).misses, maxsize,
                     Len(WrapperOf(o).cache))
    ELSE CacheInfoOf(0, 0, maxsize, 0)

CacheInfo(o) ==
    /\ o \in live
    /\ last' = [NoLast EXCEPT !.kind = "info", !.obj = o, !.info = InfoOf(o)]
    /\ UNCHANGED <<maxsize, ident, live, wrappers, seen, cpVars, thrVars>>

\* cache_clear(instance): the wrapper's cache_clear(), when there is one.
CacheClear(o) ==
    /\ o \in live
    /\ wrappers' = IF WrapperKey(o) \in DOMAIN wrappers
                   THEN DictSet(wrappers, WrapperKey(o), NewCache)
                   ELSE wrappers
    /\ seen' = [seen EXCEPT ![o] = NoSeen]
    /\ last' = [NoLast EXCEPT !.kind = "clear", !.obj = o]
    /\ UNCHANGED <<maxsize, ident, live, cpVars, thrVars>>

(***************************************************************************)
(* per_instance_lru_cache: wrapper, statement by statement, in threads     *)
(***************************************************************************)
Call(o, args) ==
    [obj |-> o, args |-> args, pc |-> "lock", hit |-> FALSE, result |-> 0,
     nested |-> {}]

Calling(t) == frames[t] # <<>>

Cur(t) == frames[t][Len(frames[t])]

SetCur(t, f) == [frames EXCEPT ![t] = [@ EXCEPT ![Len(@)] = f]]

\* wrapper(self, *args) is called by the program.
WrapperEnter(t, o, args) ==
    /\ t \in cfg.threads
    /\ ~Calling(t)
    /\ o \in live
    /\ ret[t].n < cfg.rounds
    /\ frames' = [frames EXCEPT ![t] = <<Call(o, args)>>]
    /\ UNCHANGED <<maxsize, ident, live, wrappers, seen, last, wlock, ret, made,
                   cpVars>>

\* Mutant: the wrapper goes on without the lock.
WrapperLockNone(t) ==
    /\ Calling(t) /\ Cur(t).pc = "lock"
    /\ frames' = SetCur(t, [Cur(t) EXCEPT !.pc = "get"])
    /\ UNCHANGED <<maxsize, ident, live, wrappers, seen, last, wlock, ret, made,
                   cpVars>>

\* `with lock:`
WrapperLock(t) ==
    /\ Calling(t) /\ Cur(t).pc = "lock"
    /\ wlock = NoOwner
    /\ wlock' = t
    /\ frames' = SetCur(t, [Cur(t) EXCEPT !.pc = "get"])
    /\ UNCHANGED <<maxsize, ident, live, wrappers, seen, last, ret, made, cpVars>>

\* key = id(self); instance_wrapper = get_instance_wrapper(key)
WrapperGet(t) ==
    /\ Calling(t) /\ Cur(t).pc = "get"
    /\ frames' = SetCur(t, [Cur(t) EXCEPT !.pc =
                    IF WrapperKey(Cur(t).obj) \in DOMAIN wrappers
                    THEN "unlock" ELSE "make"])
    /\ UNCHANGED <<maxsize, ident, live, wrappers, seen, last, wlock, ret, made,
                   cpVars>>

\* instance_wrapper = lru_cache(maxsize, typed)(method);
\* instance_wrappers[key] = instance_wrapper
WrapperMake(t) ==
    /\ Calling(t) /\ Cur(t).pc = "make"
    /\ LET key == WrapperKey(Cur(t).obj)
       IN  /\ wrappers' = DictSet(wrappers, key, NewCache)
           /\ made' = [made EXCEPT ![key] = IF @ < 2 THEN @ + 1 ELSE @]
    /\ frames' = SetCur(t, [Cur(t) EXCEPT !.pc = "unlock"])
    /\ UNCHANGED <<maxsize, ident, live, seen, last, wlock, ret, cpVars>>

\* Mutant: the lock is kept while instance_wrapper(self, ...) runs.
WrapperUnlockLate(t) ==
    /\ Calling(t) /\ Cur(t).pc = "unlock"
    /\ frames' = SetCur(t, [Cur(t) EXCEPT !.pc = "look"])
    /\ UNCHANGED <<maxsize, ident, live, wrappers, seen, last, wlock, ret, made,
                   cpVars>>

\* The end of the with-block: the lock is released.
WrapperUnlock(t) ==
    /\ Calling(t) /\ Cur(t).pc = "unlock"
    /\ wlock' = IF wlock = t THEN NoOwner ELSE wlock
    /\ frames' = SetCur(t, [Cur(t) EXCEPT !.pc = "look"])
    /\ UNCHANGED <<maxsize, ident, live, wrappers, seen, last, ret, made, cpVars>>

\* instance_wrapper(self, *args), first half: the key (self, args) is looked
\* up in the lru_cache; a hit is counted and returned, a miss is counted and
\* the method called.
CacheLookup(t) ==
    /\ Calling(t) /\ Cur(t).pc = "look"
    /\ LET f == Cur(t)
           key == WrapperKey(f.obj)
           w == wrappers[key]
           i == IF maxsize = {0} THEN 0 ELSE Find(w.cache, f.obj, f.args)
       IN  IF i # 0
           THEN /\ wrappers' = DictSet(wrappers, key,
                        [w EXCEPT !.hits = @ + 1,
                                  !.cache = IF maxsize = {} THEN @
                                            ELSE Append(Remove(@, i), w.cache[i])])
                /\ frames' = SetCur(t, [f EXCEPT !.pc = "ret", !.hit = TRUE,
                                                 !.result = w.cache[i].val])
           ELSE /\ wrappers' = DictSet(wrappers, key, [w EXCEPT !.misses = @ + 1])
                /\ frames' = SetCur(t, [f EXCEPT !.pc = "body"])
    /\ UNCHANGED <<maxsize, ident, live, seen, last, wlock, ret, made, cpVars>>

\* The decorated method is called again by the thread that is inside
\* instance_wrapper: by the __eq__ of an argument while the key is looked
\* up, or by the body of the method.
Reenter(t, o, args) ==
    /\ Calling(t) /\ Cur(t).pc \in {"look", "body"}
    /\ Len(frames[t]) < MaxDepth
    /\ Cur(t).nested = {}
    /\ o \in live
    /\ frames' = [frames EXCEPT ![t] =
            Append([@ EXCEPT ![Len(@)].nested = @ \cup {Cur(t).pc}], Call(o, args))]
    /\ UNCHANGED <<maxsize, ident, live, wrappers, seen, last, wlock, ret, made,
                   cpVars>>

\* The body of the method returns its result.
MethodBody(t) ==
    /\ Calling(t) /\ Cur(t).pc = "body"
    /\ frames' = SetCur(t, [Cur(t) EXCEPT !.pc = "store",
                                          !.result = Method(Cur(t).args)])
    /\ UNCHANGED <<maxsize, ident, live, wrappers, seen, last, wlock, ret, made,
                   cpVars>>

\* instance_wrapper(self, *args), second half: the result is stored unless
\* maxsize is 0 or another call has stored the key meanwhile; the least
\* recently used entry makes room in a full cache.
CacheStore(t) ==
    /\ Calling(t) /\ Cur(t).pc = "store"
    /\ LET f == Cur(t)
           key == WrapperKey(f.obj)
           w == wrappers[key]
           e == [self |-> f.obj, args |-> f.args, val |-> f.result]
       IN  wrappers' = DictSet(wrappers, key,
                [w EXCEPT !.cache =
                    IF maxsize = {0} \/ Find(@, f.obj, f.args) # 0 THEN @
                    ELSE IF maxsize # {} /\ Len(@) >= MaxsizeInt
                    THEN Append(Tail(@), e)
                    ELSE Append(@, e)])
    /\ frames' = SetCur(t, [Cur(t) EXCEPT !.pc = "ret"])
    /\ UNCHANGED <<maxsize, ident, live, seen, last, wlock, ret, made, cpVars>>

\* `return result`
WrapperReturn(t) ==
    /\ Calling(t) /\ Cur(t).pc = "ret"
    /\ frames' = [frames EXCEPT ![t] = SubSeq(@, 1, Len(@) - 1)]
    /\ ret' = IF Len(frames[t]) = 1
              THEN [ret EXCEPT ![t] = [n |-> @.n + 1, hit |-> Cur(t).hit,
                                       result |-> Cur(t).result,
                                       nested |-> Cur(t).nested]]
              ELSE ret
    /\ UNCHANGED <<maxsize, ident, live, wrappers, seen, last, wlock, made,
                   cpVars>>

\* The arguments every thread calls with in round r.
RoundArgs(r) == <<3 * r - 2, 3 * r - 1, 3 * r>>

\* start.wait(): a thread begins its next call when every thread has
\* returned from the call before.
InRound(t) == \A u \in cfg.threads : ret[u].n >= ret[t].n

\* The thread has reached pause.wait() in its call of this round, or is past it.
Paused(u, r) ==
    \/ ret[u].n >= r
    \/ /\ ret[u].n = r - 1 /\ Calling(u)
       /\ Cur(u).pc \in {"body", "store"} \/ (Cur(u).pc = "ret" /\ ~Cur(u).hit)

\* A method that waits until every thread is inside it: pause.wait(10);
\* return 3 * x
MethodPaused(t) ==
    /\ \A u \in cfg.threads : Paused(u, ret[t].n + 1)
    /\ MethodBody(t)

WrapperStep(t) ==
    \/ WrapperLock(t) \/ WrapperGet(t) \/ WrapperMake(t) \/ WrapperUnlock(t)
    \/ CacheLookup(t) \/ CacheStore(t) \/ WrapperReturn(t)

(***************************************************************************)
(* Specifications                                                          *)
(***************************************************************************)
GetStep(t) ==
    \/ GetCheck(t) \/ GetLock(t) \/ GetFget(t) \/ FgetRaise(t)
    \/ GetStore(t) \/ GetFlag(t) \/ GetReturn(t)

MapStep(t) ==
    \/ MapHas(t) \/ MapSet(t) \/ MapGet(t) \/ MapPut(t)

UpdateStep(t) ==
    \/ UpdateLock(t) \/ UpdateWrite(t) \/ UpdateFlag(t)
    \/ ResetNext(t) \/ ResetInAttrs(t) \/ ResetWasSet(t)

Next ==
    \E t \in Threads :
        \/ \E o \in Instances, x \in Names : StartGet(t, o, x)
        \/ \E o \in Instances, x \in Names, v \in SetValues : StartSet(t, o, x, v)
        \/ \E o \in Instances, x \in Names : StartDelete(t, o, x)
        \/ GetStep(t) \/ MapStep(t) \/ UpdateStep(t)

\* Threads that only read.
NextReaders ==
    \E t \in Threads :
        \/ \E o \in Instances, x \in Names : StartGet(t, o, x)
        \/ GetStep(t) \/ MapStep(t)

\* One thread and one instance of a class whose properties declare any
\* dependencies: none, one each (on themselves, on each other in a cycle of two
\* or three, in a chain), or all three on all three. The thread makes MaxOps
\* accesses.
AnyDefs ==
    {d \in [Names -> SUBSET Names] : \A x \in Names : Cardinality(d[x]) <= 1}
        \cup {[x \in Names |-> Names]}

InitCyc == InitWith(AnyDefs, {"t1"}, {"o1"}, Names, {"A"}, TRUE)

SpecCyc == InitCyc /\ [][Next]_vars /\ WF_vars(Next)

\* Classes with a regular attribute r that cached properties depend on,
\* whose __setattr__ calls reset_dependents_of; one thread, one instance.
RegDefs ==
    {[a |-> {}, b |-> {"a", "r"}, c |-> {"b"}],
     [a |-> {"r"}, b |-> {"a"}, c |-> {"r"}]}

InitReg == InitWith(RegDefs, {"t1"}, {"o1"}, Names, {"A"}, FALSE)

NextReg ==
    \/ Next
    \/ \E t \in Threads :
        \/ \E o \in Instances, x \in Names \cup Regular : StartResetOf(t, o, x)
        \/ ResetOfCheck(t) \/ ResetOfLock(t)

SpecReg == InitReg /\ [][NextReg]_vars

\* One thread, one instance, any number of accesses.
InitSeq == InitWith(ClassDefs, {"t1"}, {"o1"}, Names, SetValues, FALSE)

SpecSeq == InitSeq /\ [][Next]_vars

\* The thread keeps running: a statement that can execute does.
SpecSeqFair == SpecSeq /\ WF_vars(Next)

\* Three threads reading a and b of one fresh instance, any number of times.
InitReaders == InitWith({Chain}, Threads, {"o1"}, {"a", "b"}, {}, FALSE)

SpecReaders == InitReaders /\ [][NextReaders]_vars

\* Two threads on one instance, MaxOps accesses each.
Init == InitWith({Chain}, {"t1", "t2"}, {"o1"}, {"a", "b"}, {"A"}, TRUE)

Spec == Init /\ [][Next]_vars

\* Two threads, each on an instance of its own, MaxOps accesses each.
InitOwn ==
    /\ InitState({Chain}, [threads |-> {"t1", "t2"}, instances |-> Instances,
                           names |-> {"a", "b"}, values |-> {"A"},
                           bounded |-> TRUE, own |-> TRUE])
    /\ LruStart({})

SpecOwn == InitOwn /\ [][Next]_vars

\* Instances of C created, called at most MaxCalls times between clears, and
\* dropped, one operation after the other; no cached property in use.
InitLru ==
    /\ InitState({Chain}, [threads |-> {}, instances |-> {}, names |-> {},
                           values |-> {}, bounded |-> FALSE, own |-> FALSE])
    /\ \E ms \in MaxSizes : LruStart(ms)

NextLru ==
    \E o \in LruObjs :
        \/ NewInstance(o)
        \/ DropInstance(o)
        \/ \E args \in ArgTuples : LruCall(o, args)
        \/ CacheInfo(o)
        \/ CacheClear(o)

SpecLru == InitLru /\ [][NextLru]_vars

\* Decorators register up to MaxRegs actions; fire_actions is called in between.
NextActions ==
    \/ \E wrapped \in WrappedObjs, tag \in Tags : RegisterAction(wrapped, tag)
    \/ \E where \in Wheres, tags \in TagTuples : FireActions(where, tags)

InitActions ==
    /\ InitState({Chain}, [threads |-> {}, instances |-> {}, names |-> {},
                           values |-> {}, bounded |-> FALSE, own |-> FALSE])
    /\ LruStart({})

SpecActions == InitActions /\ [][NextActions]_vars

\* Two threads that call the method of two instances, once each, with the
\* same arguments; a call may call the method again with these or other
\* arguments, MaxDepth deep. The cache is unbounded or holds one entry.
InitLruThreads ==
    /\ InitState({Chain}, [threads |-> {"t1", "t2"}, instances |-> {}, names |-> {},
                           values |-> {}, bounded |-> FALSE, own |-> FALSE,
                           rounds |-> 1])
    /\ \E ms \in {{}, {1}} : LruStart(ms)

TwoArgs == {<<1, 2, 3>>, <<4, 5, 6>>}

NextLruThreads ==
    \/ \E o \in LruObjs : NewInstance(o)
    \/ \E t \in Threads :
        \/ \E o \in LruObjs : WrapperEnter(t, o, <<1, 2, 3>>)
        \/ \E o \in LruObjs, args \in TwoArgs : Reenter(t, o, args)
        \/ WrapperStep(t) \/ MethodBody(t)

\* Three threads that call the method of one instance with the same
\* arguments at the same time, MaxRounds times, each time with new arguments.
InitLruBarrier ==
    /\ InitState({Chain}, [threads |-> Threads, instances |-> {}, names |-> {},
                           values |-> {}, bounded |-> FALSE, own |-> FALSE,
                           rounds |-> MaxRounds])
    /\ \E ms \in MaxSizes : LruStart(ms)

NextLruBarrier ==
    \/ \E o \in LruObjs : NewInstance(o)
    \/ \E t \in Threads :
        \/ InRound(t) /\ WrapperEnter(t, "c", RoundArgs(ret[t].n + 1))
        \/ WrapperStep(t) \/ MethodPaused(t)

SpecLruBarrier == InitLruBarrier /\ [][NextLruBarrier]_vars

SpecLruThreads == InitLruThreads /\ [][NextLruThreads]_vars /\ WF_vars(NextLruThreads)

(***************************************************************************)
(* The vocabulary of the properties                                        *)
(***************************************************************************)
\* The slot of x is populated in __dict__ d.
Cached(d, x) == x \in DOMAIN d

\* The slot of x holds a value that was assigned.
SetDirectly(d, x) == Cached(d, x) /\ DictGetTruthy(d, WasSetDirectlyName(x))

\* The slot of x holds a value that fget computed.
Computed(d, x) == Cached(d, x) /\ ~DictGetTruthy(d, WasSetDirectlyName(x))

\* The access of t has ended, with a value or an exception.
Done(t) == op[t].status = "done"

\* The access of t has ended without an exception.
Returned(t) == Done(t) /\ op[t].exc = ""

Quiescent == \A t \in Threads : ~Running(t)

\* The properties that declare a property of xs as a dependency.
Dependents(xs) == {y \in Names : dependencies[y] \cap xs # {}}

\* A read of y that found the slot empty returned what fget computes from the
\* present value of the property it reads.
ReadRecomputes(t) ==
    \A y \in Names :
        (Returned(t) /\ op[t].kind = "get" /\ op[t].name = y
            /\ ~Cached(op[t].pre, y))
        => /\ y \in op[t].computed
           /\ Computed(attrs[op[t].obj], y)
           /\ attrs[op[t].obj][y] = op[t].result
           /\ ReadBy(y) # "" =>
                /\ Cached(attrs[op[t].obj], ReadBy(y))
                /\ op[t].result = Fget(y, attrs[op[t].obj][ReadBy(y)])

\* A set or delete of a property has emptied the slots of the dependents that
\* held a computed value when it began.
DependentsReset(t) ==
    \A y \in Names :
        (Returned(t) /\ op[t].kind \in {"set", "delete"}
            /\ op[t].name \in dependencies[y] /\ Computed(op[t].pre, y))
        => ~Cached(attrs[op[t].obj], y)

(***************************************************************************)
(* C1: if B declares A as a dependency and B holds a computed value, then  *)
(* when set(A, v) or delete(A) has completed B's slot is empty, and the    *)
(* next read of B recomputes it from A's new state.  Single-threaded use.  *)
(***************************************************************************)
C1_DependentInvalidated ==
    \A t \in Threads : DependentsReset(t) /\ ReadRecomputes(t)

C1_Witness ==
    \E t \in Threads :
        /\ Returned(t) /\ op[t].kind = "set" /\ op[t].name = "a"
        /\ Computed(op[t].pre, "b")
        /\ ~Cached(attrs[op[t].obj], "b")

(***************************************************************************)
(* C2: a property B whose value was set directly keeps that value and its  *)
(* set-directly flag through every access that is not a set or delete of B *)
(* itself, a set or delete of its dependency A included.  Single-threaded  *)
(* use.                                                                    *)
(***************************************************************************)
C2_SetDirectlyKept ==
    \A t \in Threads : \A y \in Names :
        (op[t].status # "idle"
            /\ ~(op[t].kind \in {"set", "delete"} /\ op[t].name = y)
            /\ SetDirectly(op[t].pre, y))
        => /\ SetDirectly(attrs[op[t].obj], y)
           /\ attrs[op[t].obj][y] = op[t].pre[y]

C2_Witness ==
    \E t \in Threads :
        /\ Returned(t) /\ op[t].kind = "delete" /\ op[t].name = "a"
        /\ Cached(op[t].pre, "a")
        /\ SetDirectly(op[t].pre, "b")
        /\ attrs[op[t].obj]["b"] = op[t].pre["b"]

(***************************************************************************)
(* C3: a read of a cached property returns the cached value, invokes no    *)
(* compute function and changes nothing; a read of an uncached property    *)
(* invokes its compute function and caches the result; so N consecutive    *)
(* reads store one computed value and all return it.  Single-threaded use. *)
(***************************************************************************)
C3_ComputedOnce ==
    /\ \A o \in Instances, x \in Names : hist[o][x].calls <= 1
    /\ \A t \in Threads :
        /\ (Returned(t) /\ op[t].kind = "get" /\ Cached(op[t].pre, op[t].name))
            => /\ op[t].computed = {}
               /\ op[t].result = op[t].pre[op[t].name]
               /\ attrs[op[t].obj] = op[t].pre
        /\ (Returned(t) /\ op[t].kind = "get" /\ ~Cached(op[t].pre, op[t].name))
            => /\ op[t].name \in op[t].computed
               /\ hist[op[t].obj][op[t].name].calls = 1
               /\ attrs[op[t].obj][op[t].name] = op[t].result

C3_Witness ==
    \E t \in Threads :
        /\ Returned(t) /\ op[t].kind = "get" /\ op[t].name = "b"
        /\ Computed(op[t].pre, "b")
        /\ op[t].computed = {}
        /\ hist[op[t].obj]["b"].calls = 1
        /\ op[t].result = "a + b"

(***************************************************************************)
(* C4: threads that concurrently read an uncached property of an instance  *)
(* store one computed value for it, and every read that returns, returns   *)
(* that value.                                                             *)
(***************************************************************************)
C4_OneComputation ==
    /\ \A o \in Instances, x \in Names : hist[o][x].calls <= 1
    /\ \A t \in Threads :
        (Returned(t) /\ op[t].kind = "get")
        => /\ hist[op[t].obj][op[t].name].calls = 1
           /\ Cached(attrs[op[t].obj], op[t].name)
           /\ op[t].result = attrs[op[t].obj][op[t].name]

C4_Witness ==
    \E t, u \in Threads :
        /\ t # u
        /\ \A w \in {t, u} :
            /\ Returned(w) /\ op[w].kind = "get" /\ op[w].name = "b"
            /\ ~Cached(op[w].pre, "b")
            /\ ~op[w].alone
            /\ op[w].result = "a + b"
        /\ op[t].computed = {"a", "b"}
        /\ op[u].computed = {}

(***************************************************************************)
(* C5: when set(instance, v) has completed the slot holds v, cached before *)
(* or not, and every read returns v and invokes no compute function until  *)
(* the property is next assigned or deleted by statement.  Single-threaded *)
(* use.                                                                    *)
(***************************************************************************)
C5_SetValueRead ==
    /\ \A t \in Threads :
        (Returned(t) /\ op[t].kind = "set")
        => /\ SetDirectly(attrs[op[t].obj], op[t].name)
           /\ attrs[op[t].obj][op[t].name] = op[t].arg
    /\ \A t \in Threads :
        (Done(t) /\ op[t].kind = "get" /\ hist[op[t].obj][op[t].name].lastset # {})
        => /\ op[t].exc = ""
           /\ hist[op[t].obj][op[t].name].lastset = {op[t].result}
           /\ op[t].computed = {}
    /\ \A o \in Instances, x \in Names :
        (Quiescent /\ hist[o][x].lastset # {})
        => Cached(attrs[o], x) /\ hist[o][x].lastset = {attrs[o][x]}

C5_Witness ==
    \E t \in Threads :
        /\ Returned(t) /\ op[t].kind = "get" /\ op[t].name = "b"
        /\ hist[op[t].obj]["b"].lastset = {"B"}
        /\ op[t].result = "B"
        /\ hist[op[t].obj]["a"].lastev = "deleted"

(***************************************************************************)
(* C6: deleting a directly set property B empties its slot and clears its  *)
(* set-directly flag; the next read of B is computed from the current      *)
(* value of its dependency A, and a B so computed is again reset by a set  *)
(* or delete of A.  Single-threaded use.                                   *)
(***************************************************************************)
C6_DeleteClearsSetDirectly ==
    \A t \in Threads :
        /\ (Returned(t) /\ op[t].kind = "delete" /\ SetDirectly(op[t].pre, op[t].name))
            => /\ ~Cached(attrs[op[t].obj], op[t].name)
               /\ WasSetDirectlyName(op[t].name) \in DOMAIN attrs[op[t].obj]
               /\ attrs[op[t].obj][WasSetDirectlyName(op[t].name)] = FALSE
        /\ ReadRecomputes(t)
        /\ DependentsReset(t)

C6_Witness ==
    \E t \in Threads :
        /\ Returned(t) /\ op[t].kind = "delete" /\ op[t].name = "b"
        /\ SetDirectly(op[t].pre, "b")
        /\ ~Cached(attrs[op[t].obj], "b")
        /\ Cached(attrs[op[t].obj], "a")

(***************************************************************************)
(* C7: invalidation is transitive: with C depending on B and B on A, and   *)
(* B and C holding computed values, when set(A) or delete(A) has completed *)
(* the slots of B and of C are both empty (whatever A's slot held).        *)
(* Single-threaded use.                                                    *)
(***************************************************************************)
C7_TransitiveReset ==
    \A t \in Threads : \A y, z \in Names :
        (Returned(t) /\ op[t].kind \in {"set", "delete"}
            /\ op[t].name \in dependencies[y] /\ y \in dependencies[z]
            /\ Computed(op[t].pre, y) /\ Computed(op[t].pre, z))
        => /\ ~Cached(attrs[op[t].obj], y)
           /\ ~Cached(attrs[op[t].obj], z)

C7_Witness ==
    \E t \in Threads :
        /\ dependencies["c"] = {"b"}
        /\ Returned(t) /\ op[t].kind = "set" /\ op[t].name = "a"
        /\ \A x \in Names : Computed(op[t].pre, x)
        /\ SetDirectly(attrs[op[t].obj], "a")
        /\ ~Cached(attrs[op[t].obj], "b")
        /\ ~Cached(attrs[op[t].obj], "c")

(***************************************************************************)
(* C8: deleting a property that has no cached value raises no error and    *)
(* adds, removes or changes no slot of the instance.                       *)
(***************************************************************************)
C8_DeleteUncachedNoOp ==
    \A t \in Threads :
        (Done(t) /\ op[t].kind = "delete" /\ ~Cached(op[t].pre, op[t].name))
        => /\ op[t].exc = ""
           /\ \A y \in Names :
                /\ Cached(attrs[op[t].obj], y) <=> Cached(op[t].pre, y)
                /\ Cached(op[t].pre, y) => attrs[op[t].obj][y] = op[t].pre[y]

\* The properties a set or delete of x resets in __dict__ d: the dependents of
\* x that hold a computed value, and those of the properties reset.
ResetBy(d, x) ==
    LET r1 == {y \in Dependents({x}) : Computed(d, y)}
        r2 == r1 \cup {y \in Dependents(r1) : Computed(d, y)}
    IN  r2 \cup {y \in Dependents(r2) : Computed(d, y)}

(***************************************************************************)
(* C8 as amended: deleting a property that has no cached value raises no   *)
(* error, leaves its slot empty and adds or changes no slot, but it does   *)
(* run the dependency reset: the slots removed are exactly those of the    *)
(* properties that depend on it, directly or through reset properties, and *)
(* held a computed value.  Single-threaded use.                            *)
(***************************************************************************)
C8_DeleteUncachedResets ==
    \A t \in Threads :
        (Done(t) /\ op[t].kind = "delete" /\ ~Cached(op[t].pre, op[t].name))
        => /\ op[t].exc = ""
           /\ ~Cached(attrs[op[t].obj], op[t].name)
           /\ \A y \in Names :
                /\ Cached(attrs[op[t].obj], y) <=>
                        (Cached(op[t].pre, y) /\ y \notin ResetBy(op[t].pre, op[t].name))
                /\ Cached(attrs[op[t].obj], y) => attrs[op[t].obj][y] = op[t].pre[y]

C8_Witness ==
    \E t \in Threads :
        /\ Returned(t) /\ op[t].kind = "delete" /\ op[t].name = "a"
        /\ ~Cached(op[t].pre, "a")
        /\ SetDirectly(op[t].pre, "b")
        /\ Computed(op[t].pre, "c")
        /\ ~Cached(attrs[op[t].obj], "c")
        /\ Cached(attrs[op[t].obj], "b")

(***************************************************************************)
(* C9: between the accesses of a single thread, a slot is populated if and *)
(* only if the latest of the property's assignments, deletes (by statement *)
(* or as a dependent) and successful computations is not a delete.         *)
(***************************************************************************)
C9_CachedIffSetOrComputed ==
    Quiescent =>
        \A o \in Instances, x \in Names :
            Cached(attrs[o], x) <=> hist[o][x].lastev \in {"set", "computed"}

C9_Witness ==
    \E t \in Threads :
        /\ Returned(t) /\ op[t].kind = "set" /\ op[t].name = "a"
        /\ Computed(op[t].pre, "b")
        /\ hist[op[t].obj]["b"].lastev = "deleted"
        /\ hist[op[t].obj]["c"].lastev = "set"
        /\ ~Cached(attrs[op[t].obj], "b")
        /\ Cached(attrs[op[t].obj], "c")

(***************************************************************************)
(* C10: when a compute function raises during a read, the read ends with   *)
(* that error, the slot of the property whose fget raised and the slot     *)
(* read are empty and the thread holds no lock; every read that finds the  *)
(* slot empty invokes the compute function, and a read that returns has    *)
(* cached what it computed.  Single-threaded use.                          *)
(***************************************************************************)
C10_FailedComputeNotCached ==
    \A t \in Threads :
        /\ (Done(t) /\ op[t].exc = "ComputeError")
            => /\ op[t].kind = "get"
               /\ op[t].raised \in op[t].computed
               /\ ~Cached(attrs[op[t].obj], op[t].raised)
               /\ ~Cached(attrs[op[t].obj], op[t].name)
               /\ \A x \in Names : lock[x] # t
        /\ (Done(t) /\ op[t].kind = "get" /\ ~Cached(op[t].pre, op[t].name))
            => op[t].name \in op[t].computed
        /\ (Returned(t) /\ op[t].kind = "get")
            => \A x \in op[t].computed : Computed(attrs[op[t].obj], x)

C10_Witness ==
    \E t \in Threads :
        /\ Done(t) /\ op[t].exc = "ComputeError"
        /\ op[t].name = "c" /\ op[t].raised = "b"
        /\ Computed(attrs[op[t].obj], "a")
        /\ ~Cached(attrs[op[t].obj], "b")
        /\ \A x \in Names : lock[x] = NoOwner

(***************************************************************************)
(* C11: in any interleaving of threads reading, assigning and deleting     *)
(* properties of one instance, an access ends with no error other than the *)
(* one its compute function raised: a read returns a value, also when      *)
(* another thread deletes the property meanwhile.                          *)
(***************************************************************************)
C11_OnlyComputeErrors ==
    \A t \in Threads :
        Done(t) => op[t].exc \in {"", "ComputeError"}

\* Thread t is at a `with self.lock:` whose lock thread u holds.
WaitsFor(t, u) ==
    /\ Running(t)
    /\ Top(t).pc = "lock"
    /\ lock[Top(t).name] = u

(***************************************************************************)
(* C12: every access eventually returns: no reachable state has threads    *)
(* waiting for each other's locks (B depends on A, B's compute reads A).   *)
(***************************************************************************)
C12_NoDeadlock ==
    \A t, u \in Threads : ~(WaitsFor(t, u) /\ WaitsFor(u, t))

(***************************************************************************)
(* C13: accesses to different instances of the class do not interfere: a   *)
(* get, set or delete on one instance never waits for a lock held by an    *)
(* access in progress on another instance.                                 *)
(***************************************************************************)
C13_NoCrossInstanceWait ==
    \A t, u \in Threads :
        WaitsFor(t, u) => op[t].obj = op[u].obj

(***************************************************************************)
(* C13 as amended: accesses to different instances do not touch each       *)
(* other's cached state: every change of an instance's __dict__ is a step  *)
(* of a thread accessing that instance.  (Each property's lock is one for  *)
(* all instances, and an access can wait for an access to another          *)
(* instance.)                                                              *)
(***************************************************************************)
C13_SlotsPerInstance ==
    [][\A o \in Instances :
        attrs'[o] # attrs[o] =>
            \E t \in Threads : stack'[t] # stack[t] /\ op[t].obj = o]_vars

C13_Witness ==
    \E t, u \in Threads :
        /\ WaitsFor(t, u)
        /\ op[t].obj # op[u].obj
        /\ Cached(attrs[op[t].obj], "a")
        /\ ~Cached(attrs[op[u].obj], "a")

\* Thread t is inside a `with self.lock:` block of property x, accessing instance o.
InSection(t, x, o) == lock[x] = t /\ op[t].obj = o

(***************************************************************************)
(* C14: for one instance with B depending on A, the mutating sections      *)
(* (compute on read, set, delete) of A and of B exclude each other: no two *)
(* threads are inside the section of A and the section of B at once.       *)
(***************************************************************************)
C14_ChainExclusive ==
    \A t, u \in Threads : \A o \in Instances :
        t # u => ~(InSection(t, "a", o) /\ InSection(u, "b", o))

(***************************************************************************)
(* C15: in a single thread, a read that computes B, whose compute function *)
(* reads another cached property A of the instance (A cached or not),      *)
(* never waits for a lock the thread holds, ends, and when it has returned *)
(* both A and B are cached.                                                *)
(***************************************************************************)
C15_NestedReadCompletes ==
    /\ [](\A t \in Threads :
            /\ ~WaitsFor(t, t)
            /\ (Returned(t) /\ op[t].kind = "get" /\ op[t].name \in op[t].computed
                    /\ ReadBy(op[t].name) # "")
                => /\ Computed(attrs[op[t].obj], op[t].name)
                   /\ Cached(attrs[op[t].obj], ReadBy(op[t].name)))
    /\ \A t \in Threads :
            (op[t].status = "running" /\ op[t].kind = "get") ~> Done(t)

C15_Witness ==
    \E t \in Threads :
        /\ Returned(t) /\ op[t].kind = "get" /\ op[t].name = "b"
        /\ op[t].computed = {"a", "b"}
        /\ ~Cached(op[t].pre, "a")
        /\ Computed(attrs[op[t].obj], "a")
        /\ Computed(attrs[op[t].obj], "b")

\* The argument tuples an instance's cache of the given maxsize can still
\* hold: the most recently used of those it was called with.
MostRecent(recent, ms) ==
    IF ms = {} THEN Range(recent)
    ELSE {recent[i] : i \in {j \in 1..Len(recent) :
                                \A n \in ms : j > Len(recent) - n}}

\* The argument tuples of the entries in the cache of instance o.
CachedArgs(o) ==
    {WrapperOf(o).cache[i].args : i \in 1..Len(WrapperOf(o).cache)}

(***************************************************************************)
(* C16: one cache per instance: a call on instance d or cache_clear(d)     *)
(* changes neither cache_info(c) nor the cached entries of another live    *)
(* instance c, and a call is answered from the cache only when the same    *)
(* instance was called with these arguments before.                        *)
(***************************************************************************)
C16_PerInstanceCache ==
    [][/\ \A c \in LruObjs :
            (c \in live /\ c \in live' /\ last'.kind \in {"call", "clear"}
                /\ last'.obj # c)
            => /\ InfoOf(c)' = InfoOf(c)
               /\ WrapperOf(c)'.cache = WrapperOf(c).cache
       /\ (last'.kind = "call" /\ last'.hit)
            => last'.args \in Range(seen[last'.obj].recent)]_vars

C16_Witness ==
    /\ live = {"c", "d"}
    /\ last.kind = "clear" /\ last.obj = "d"
    /\ seen["c"].calls = 2
    /\ InfoOf("c") = CacheInfoOf(1, 1, maxsize, 1)
    /\ InfoOf("d") = CacheInfoOf(0, 0, maxsize, 0)
    /\ WrapperKey("d") \in DOMAIN wrappers

(***************************************************************************)
(* C17: for an integer maxsize >= 0 an instance's cache never holds more   *)
(* than maxsize entries and a miss that would exceed the bound evicts the  *)
(* least recently used entry: the cache holds the maxsize most recently    *)
(* used distinct argument tuples of the instance (those used since its     *)
(* cache was last cleared), and a call is a hit exactly when its arguments *)
(* are among them; never for maxsize 0.  Calls made one after the other.   *)
(***************************************************************************)
C17_LruBound ==
    /\ [](\A k \in DOMAIN wrappers : \A n \in maxsize :
                Len(wrappers[k].cache) <= n)
    /\ [](\A o \in live :
                CachedArgs(o) = MostRecent(seen[o].recent, maxsize))
    /\ [][last'.kind = "call" =>
            (last'.hit <=>
                last'.args \in MostRecent(seen[last'.obj].recent, maxsize))]_vars

C17_Witness ==
    \E o \in live :
        /\ maxsize = {2}
        /\ last.kind = "call" /\ last.obj = o /\ ~last.hit
        /\ InfoOf(o) = CacheInfoOf(0, 4, maxsize, 2)
        /\ Len(seen[o].recent) = 3

(***************************************************************************)
(* C18: for each instance, with calls made one after the other, hits +     *)
(* misses of cache_info(instance) is the number of calls on the instance   *)
(* that returned since its last cache_clear; cache_info is (0, 0, maxsize, *)
(* 0) for an instance never called and after cache_clear(instance).        *)
(***************************************************************************)
C18_CountsPerInstance ==
    \A o \in live :
        /\ InfoOf(o).hits + InfoOf(o).misses = seen[o].calls
        /\ seen[o].calls = 0 => InfoOf(o) = CacheInfoOf(0, 0, maxsize, 0)

(***************************************************************************)
(* C19: for one instance with B depending on A, however set(B, v) by one   *)
(* thread interleaves with set(A) or delete(A) by another, once both have  *)
(* returned (and nothing else has assigned or deleted B) B holds v with    *)
(* its set-directly flag true.                                             *)
(***************************************************************************)
C19_DirectSetSurvives ==
    \A t, u \in Threads :
        (/\ t # u /\ Quiescent
         /\ Returned(t) /\ op[t].kind = "set" /\ op[t].name = "b"
         /\ Returned(u) /\ op[u].kind \in {"set", "delete"} /\ op[u].name = "a"
         /\ op[u].obj = op[t].obj
         /\ hist[op[t].obj]["b"].lastset = {op[t].arg})
        => /\ SetDirectly(attrs[op[t].obj], "b")
           /\ attrs[op[t].obj]["b"] = op[t].arg

(***************************************************************************)
(* C20: in every state with no access in progress (and none failed),       *)
(* however the threads' reads, assignments and deletes of one instance     *)
(* interleaved: a property B that holds a computed value has the property  *)
(* A it reads cached, and B's value is what its compute function returns   *)
(* for A's present value; no B computed from a replaced or deleted A stays *)
(* cached.                                                                 *)
(***************************************************************************)
C20_NoStaleDependent ==
    (Quiescent /\ \A t \in Threads : op[t].exc = "")
    => \A o \in Instances : \A y \in Names :
            (ReadBy(y) # "" /\ Computed(attrs[o], y))
            => /\ Cached(attrs[o], ReadBy(y))
               /\ attrs[o][y] = Fget(y, attrs[o][ReadBy(y)])

(***************************************************************************)
(* C21: whatever dependencies the properties of a class declare (on        *)
(* themselves and in cycles too), an assignment or a delete by a thread    *)
(* ends: the thread never waits for a lock it holds itself, and the slot   *)
(* of no property is deleted more than once while its dependents are       *)
(* reset.                                                                  *)
(***************************************************************************)
C21_PassTerminates ==
    /\ [](\A t \in Threads :
            /\ ~WaitsFor(t, t)
            /\ \A y \in Names : op[t].dels[y] <= 1)
    /\ \A t \in Threads :
            (Running(t) /\ op[t].kind \in {"set", "delete"}) ~> Done(t)

C21_Witness ==
    \E t \in Threads :
        /\ "a" \in dependencies["b"] /\ "b" \in dependencies["a"]
        /\ "c" \in dependencies["c"]
        /\ {"a", "c"} \subseteq dependencies["c"]
        /\ Returned(t) /\ op[t].kind = "delete" /\ op[t].name = "a"
        /\ \A y \in Names : Computed(op[t].pre, y) /\ op[t].dels[y] = 1
        /\ \A y \in Names : ~Cached(attrs[op[t].obj], y)

\* The frames of t, the suspended ones included, that are iterating over
\* dependency_map.items() in _reset_dependents.
Iterating(t) ==
    {i \in 1..Len(stack[t]) :
        /\ stack[t][i].fn = "upd"
        /\ stack[t][i].ctx = "reset"
        /\ stack[t][i].m # ""}

(***************************************************************************)
(* C22: while a thread resets dependents, iterating over the class's       *)
(* dependency map, no other thread adds an entry to that map: the map has  *)
(* the size it had when the iteration began.                               *)
(***************************************************************************)
C22_MapStableWhileIterated ==
    \A t \in Threads : \A i \in Iterating(t) :
        Len(mapobj[stack[t][i].m]) = stack[t][i].n

(***************************************************************************)
(* C25: an instance on which the method has not been called observes       *)
(* nothing of another instance, destroyed or not, whatever its id and      *)
(* whatever maxsize: the cache_info it asks for is (0, 0, maxsize, 0) and  *)
(* the cache found under its id has no entry.                              *)
(***************************************************************************)
C25_NewInstanceFresh ==
    \A o \in live :
        (last.kind = "info" /\ last.obj = o /\ seen[o].calls = 0)
        => /\ last.info = CacheInfoOf(0, 0, maxsize, 0)
           /\ WrapperOf(o).cache = <<>>

(***************************************************************************)
(* C24: the decorator's lock is held by a thread only while it looks up or *)
(* makes the instance's cache, never while the lru_cache or the method     *)
(* runs; so a call that calls the decorated method again (for the same or  *)
(* another instance, from the method's body or from the __eq__ of an       *)
(* argument) never waits for a lock its own thread holds, and every call   *)
(* returns.                                                                *)
(***************************************************************************)
C24_LockNotHeldInMethod ==
    /\ [](\A t \in Threads :
            wlock = t => Calling(t) /\ Cur(t).pc \in {"get", "make", "unlock"})
    /\ \A t \in Threads : Calling(t) ~> ~Calling(t)

C24_Witness ==
    \E t, u \in Threads :
        /\ t # u
        /\ ret[t].n = 1 /\ ret[t].nested = {"body"}
        /\ ret[u].n = 1 /\ ret[u].nested = {"look"}

\* The entries of the instance's cache for the arguments of round r.
EntriesFor(o, r) ==
    {i \in 1..Len(WrapperOf(o).cache) : WrapperOf(o).cache[i].args = RoundArgs(r)}

\* The number of entries after r rounds of new arguments.
SizeAfter(r) ==
    IF maxsize = {} THEN r
    ELSE IF r <= MaxsizeInt THEN r ELSE MaxsizeInt

(***************************************************************************)
(* C23: n threads call the method of one instance at the same time with    *)
(* the same arguments, not cached yet, r times over.  When all have        *)
(* returned from the r-th call, one lru_cache has been made for the        *)
(* instance, none of the calls was a hit, cache_info counts n misses a     *)
(* round and no hit, and the cache holds one entry for the arguments of    *)
(* the round (none when maxsize is 0).                                     *)
(***************************************************************************)
C23_ConcurrentMisses ==
    \A r \in 1..MaxRounds :
        (cfg.threads # {} /\ \A t \in cfg.threads : ~Calling(t) /\ ret[t].n = r)
        => /\ made[WrapperKey("c")] = 1
           /\ \A t \in cfg.threads : ~ret[t].hit
           /\ InfoOf("c") = CacheInfoOf(0, r * Cardinality(cfg.threads), maxsize,
                                        SizeAfter(r))
           /\ Cardinality(EntriesFor("c", r)) = IF maxsize = {0} THEN 0 ELSE 1

C23_Witness ==
    /\ maxsize = {2}
    /\ \A t \in Threads : ~Calling(t) /\ ret[t].n = 2 /\ ~ret[t].hit
    /\ InfoOf("c") = CacheInfoOf(0, 6, maxsize, 2)
    /\ CachedArgs("c") = {RoundArgs(1), RoundArgs(2)}

(***************************************************************************)
(* C26: reset_dependents_of(obj, name) for a regular attribute name        *)
(* empties the slots of the properties that hold a computed value and      *)
(* declare name as a dependency, and of the computed properties that       *)
(* depend on those, and changes nothing else of the instance; for the name *)
(* of a cached_property it changes nothing at all.  One thread.            *)
(***************************************************************************)
C26_ResetDependentsOf ==
    \A t \in Threads :
        (Returned(t) /\ op[t].kind = "reset")
        => LET d == op[t].pre
               R == IF op[t].name \in Regular THEN ResetBy(d, op[t].name) ELSE {}
           IN  attrs[op[t].obj] = [k \in DOMAIN d \ R |-> d[k]]

C26_Witness ==
    \E t \in Threads :
        /\ Returned(t) /\ op[t].kind = "reset" /\ op[t].name = "r"
        /\ dependencies["c"] = {"b"}
        /\ ResetBy(op[t].pre, "r") = {"b", "c"}
        /\ Cached(attrs[op[t].obj], "a")
        /\ ~Cached(attrs[op[t].obj], "b") /\ ~Cached(attrs[op[t].obj], "c")

\* The names that have an entry in the class's dependency map (none while
\* the class has no map).
Registered ==
    IF clsattr = {} THEN {}
    ELSE Range(mapobj[CHOOSE m \in clsattr : TRUE])

(***************************************************************************)
(* C27: in every state, a property that declares dependencies and whose    *)
(* slot is populated on some instance has its entry in the dependency map  *)
(* of the class.                                                           *)
(***************************************************************************)
C27_CachedIsRegistered ==
    \A o \in Instances : \A y \in Names :
        (dependencies[y] # {} /\ Cached(attrs[o], y)) => y \in Registered

(***************************************************************************)
(* C28: a step of a get, set or delete on one instance leaves the cache    *)
(* slots and the set-directly flags of every other instance as they are,   *)
(* although the instances share the dependency map and the locks of the    *)
(* class.                                                                  *)
(***************************************************************************)
C28_OtherInstanceUnchanged ==
    [][\A t \in Threads :
        stack'[t] # stack[t] =>
            \A o \in Instances \ {op'[t].obj} : attrs'[o] = attrs[o]]_vars

C28_Witness ==
    \E t \in Threads : \E o \in Instances :
        /\ Returned(t) /\ op[t].kind = "delete" /\ op[t].name = "a"
        /\ o # op[t].obj
        /\ Computed(op[t].pre, "b") /\ ~Cached(attrs[op[t].obj], "b")
        /\ Computed(attrs[o], "a") /\ Computed(attrs[o], "b")
        /\ "b" \in Registered

(***************************************************************************)
(* C30: in every state where no thread holds the lock of a property, the   *)
(* property's set-directly flag is true on an instance only if the slot is *)
(* populated and the latest write to it was an assignment; after a         *)
(* computation, a delete or a reset as a dependent the flag is false.      *)
(***************************************************************************)
C30_FlagMeansAssigned ==
    \A o \in Instances : \A x \in Names :
        lock[x] = NoOwner
        => /\ DictGetTruthy(attrs[o], WasSetDirectlyName(x))
                => Cached(attrs[o], x) /\ hist[o][x].lastev = "set"
           /\ hist[o][x].lastev \in {"computed", "deleted"}
                => ~DictGetTruthy(attrs[o], WasSetDirectlyName(x))

C30_Witness ==
    \E o \in Instances :
        /\ \A x \in Names : lock[x] = NoOwner
        /\ SetDirectly(attrs[o], "b") /\ hist[o]["b"].lastev = "set"
        /\ Computed(attrs[o], "a") /\ hist[o]["a"].lastev = "computed"
        /\ \E t \in Threads : Running(t)

\* The object at path lies in where: in the package, in the module, in the class.
LiesIn(path, where) ==
    Len(where) <= Len(path) /\ SubSeq(path, 1, Len(where)) = where

\* The tags a call of fire_actions asks for.
TagsAsked(tags) == IF tags = <<>> THEN Tags ELSE Range(tags)

(***************************************************************************)
(* C29: a call of fire_actions(where, tags) that returns has invoked the   *)
(* actions registered under the tags asked for (any tag when none is       *)
(* given) for a wrapped object that lies in where, each once, those of one *)
(* wrapped object and tag in the order they were registered, and no action *)
(* registered for an object outside where.                                 *)
(***************************************************************************)
C29_FiresExactlyWithin ==
    (lastfire.n > 0 /\ lastfire.exc = "")
    => LET acts == lastfire.acts
       IN  /\ Range(acts) =
                {i \in 1..lastfire.regs :
                    /\ reglog[i].tag \in TagsAsked(lastfire.tags)
                    /\ LiesIn(reglog[i].wrapped, lastfire.where)}
           /\ \A j, k \in 1..Len(acts) :
                /\ j # k => acts[j] # acts[k]
                /\ (/\ j < k
                    /\ reglog[acts[j]].wrapped = reglog[acts[k]].wrapped
                    /\ reglog[acts[j]].tag = reglog[acts[k]].tag)
                   => acts[j] < acts[k]

=============================================================================
